---- MODULE Spec2Model ----
(***************************************************************************)
(* BaseTrainer (implementation/base/base_trainer.py): the epoch loop of    *)
(* train(), best-checkpoint selection, early stopping, the missing-metric  *)
(* fallback, _save_checkpoint / _resume_checkpoint and _prepare_device.    *)
(*                                                                         *)
(* The abstract hooks _warmup_epoch / _train_epoch are the environment:    *)
(* each call returns a result dict that may or may not hold the monitored  *)
(* metric, and leaves the model, the optimizer and the criterion's         *)
(* masterVector in "the state after that epoch".  The result an epoch      *)
(* returns is fixed once it has been drawn (variable results), so that a   *)
(* resumed run sees the same per-epoch metric sequence as the run that     *)
(* wrote its checkpoint.                                                   *)
(***************************************************************************)
EXTENDS Integers, Sequences, FiniteSets, TLC

\* ---- bounds of the model ------------------------------------------------
MaxEpochs == 3
MaxMetric == 2
MaxEarlyStop == 2
MaxSavePeriod == 2
MaxWarmup == 2
MaxGpu == 7

\* ---- constants of the program -------------------------------------------
\* numpy's inf: larger than every metric value and every counter of the model
inf == 1000000
\* second word of config['trainer']['monitor'], e.g. "min val_loss"
mnt_metric == "val_loss"
\* the only file _save_checkpoint writes
best_path == "model_best.pth"
\* config['arch'] and type(self.model).__name__
arch == "Model"

VARIABLES
    config,              \* config['trainer'] and config['comet']['api'] is not None
    mnt_mode,            \* self.mnt_mode
    mnt_best,            \* self.mnt_best
    start_epoch,         \* self.start_epoch
    state_dict,          \* model / optimizer state: the last epoch trained
    masterVector,        \* self.train_criterion.masterVector
    pc,                  \* "init" in __init__, then "ready", "loop", "break", "done"
    epoch,               \* loop variable of train()
    not_improved_count,  \* local of train()
    disk,                \* files under checkpoint_dir: set of [name, state]
    finalized,           \* number of writer.finalize() calls of this trainer
    logger,              \* warnings and the early-stop message, in order
    calls,               \* hook calls of this train(): <<hook, epoch>>
    history,             \* one record per executed epoch of this train()
    best0,               \* mnt_best when this train() began
    results,             \* results[e]: what the hook of epoch e returns
    phase,               \* "fresh" (config.resume is None) or "resumed"
    written,             \* every state torch.save wrote in the fresh run
    reference,           \* history of the uninterrupted (fresh) run
    resumed,             \* the checkpoint config.resume pointed at, if any
    n_gpu_use,           \* config['n_gpu']
    n_gpu,               \* torch.cuda.device_count()
    device,              \* self.device
    device_ids,          \* list_ids returned by _prepare_device
    dev_warnings,        \* warnings _prepare_device logged
    dev_pc               \* "call" before _prepare_device, "returned" after

trainer_vars == <<config, mnt_mode, mnt_best, start_epoch, state_dict, masterVector,
                  pc, epoch, not_improved_count, disk, finalized, logger, calls,
                  history, best0, results, phase, written, reference, resumed>>
device_vars == <<n_gpu_use, n_gpu, device, device_ids, dev_warnings, dev_pc>>
vars == <<trainer_vars, device_vars>>

Monitors == {"off", "min", "max"}

\* cfg_trainer: early_stop is read only when monitor is not 'off' (line 73);
\* an absent early_stop is inf
Configs ==
    {c \in [epochs : 1..MaxEpochs, save_period : 1..MaxSavePeriod,
            warmup : 0..MaxWarmup, monitor : Monitors,
            early_stop : (0..MaxEarlyStop) \cup {inf}, comet_api : BOOLEAN] :
        c.monitor = "off" => c.early_stop = inf}

\* what an epoch hook can return: a dict with or without the monitored metric
HookResults ==
    {[loss |-> 0]} \cup {[loss |-> 0, val_loss |-> v] : v \in 1..MaxMetric}

Min(a, b) == IF a <= b THEN a ELSE b

\* ---- _prepare_device ----------------------------------------------------
\* list(range(n))
Range(n) == [i \in 1..n |-> i - 1]

prepare_device_unclamped(use, avail) ==
    LET w1 == use > 0 /\ avail = 0
        use1 == IF w1 THEN 0 ELSE use
    IN [device |-> IF use1 > 0 THEN "cuda:0" ELSE "cpu",
        list_ids |-> Range(use1),
        warnings |-> IF w1 THEN 1 ELSE 0]

prepare_device(use, avail) ==
    LET w1 == use > 0 /\ avail = 0
        use1 == IF w1 THEN 0 ELSE use
        w2 == use1 > avail
        use2 == IF w2 THEN avail ELSE use1
    IN [device |-> IF use2 > 0 THEN "cuda:0" ELSE "cpu",
        list_ids |-> Range(use2),
        warnings |-> (IF w1 THEN 1 ELSE 0) + (IF w2 THEN 1 ELSE 0)]

\* ---- __init__ -----------------------------------------------------------
\* lines 65-73: mnt_mode and mnt_best from config['trainer']['monitor']
InitMode(c) == c.monitor
InitBest(c) == IF c.monitor = "off" THEN 0
               ELSE IF c.monitor = "min" THEN inf ELSE -inf

\* ---- _save_checkpoint ---------------------------------------------------
Checkpoint(e) ==
    [arch |-> arch, epoch |-> e, state_dict |-> state_dict',
     optimizer |-> state_dict', monitor_best |-> mnt_best',
     masterVector |-> masterVector']

\* torch.save(state, path): the file at path is replaced
torch_save(files, path, state) ==
    {f \in files : f.name # path} \cup {[name |-> path, state |-> state]}

\* the regular checkpoint-epoch{}.pth write is commented out (lines 187-189):
\* only save_best writes anything
save_checkpoint(files, state, save_best) ==
    IF save_best THEN torch_save(files, best_path, state) ELSE files

\* ---- _resume_checkpoint -------------------------------------------------
resume_checkpoint_same_epoch(checkpoint) ==
    [start_epoch |-> checkpoint.epoch,
     mnt_best |-> checkpoint.monitor_best,
     masterVector |-> checkpoint.masterVector,
     state_dict |-> checkpoint.state_dict]

resume_checkpoint_keep_best(checkpoint) ==
    [start_epoch |-> checkpoint.epoch + 1,
     mnt_best |-> InitBest(config),
     masterVector |-> checkpoint.masterVector,
     state_dict |-> checkpoint.state_dict]

resume_checkpoint(checkpoint) ==
    [start_epoch |-> checkpoint.epoch + 1,
     mnt_best |-> checkpoint.monitor_best,
     masterVector |-> checkpoint.masterVector,
     state_dict |-> checkpoint.state_dict]

\* ---- train(): one iteration of the epoch loop ---------------------------
EpochHookStrict(e) == IF e < config.warmup THEN "_warmup_epoch" ELSE "_train_epoch"

\* lines 98-101
EpochHook(e) == IF e <= config.warmup THEN "_warmup_epoch" ELSE "_train_epoch"

\* lines 106-115: log = {'epoch': epoch} updated with the result's items
Log(e, result) ==
    [k \in {"epoch"} \cup DOMAIN result |-> IF k = "epoch" THEN e ELSE result[k]]

\* log[self.mnt_metric] raises KeyError exactly when the key is absent
MetricFound(log) == mnt_metric \in DOMAIN log

ImprovedStrict(mode, log, best) ==
    \/ mode = "min" /\ log[mnt_metric] < best
    \/ mode = "max" /\ log[mnt_metric] > best

\* lines 126-127
Improved(mode, log, best) ==
    \/ mode = "min" /\ log[mnt_metric] <= best
    \/ mode = "max" /\ log[mnt_metric] >= best

\* lines 122-144: the outcome of the monitoring block for one epoch
Evaluate(mode, best, count, log) ==
    IF mode = "off"
    THEN [mnt_mode |-> mode, mnt_best |-> best, not_improved_count |-> count,
          best |-> FALSE, warned |-> FALSE, stop |-> FALSE]
    ELSE LET found == MetricFound(log)
             improved == found /\ Improved(mode, log, best)
             cnt == IF improved THEN 0 ELSE count + 1
         IN [mnt_mode |-> IF found THEN mode ELSE "off",
             mnt_best |-> IF improved THEN log[mnt_metric] ELSE best,
             not_improved_count |-> cnt,
             best |-> improved,
             warned |-> ~found,
             stop |-> cnt > config.early_stop]

\* the result the hook of epoch e returns: drawn once, then fixed
HookReturns(e) == IF e \in DOMAIN results THEN {results[e]} ELSE HookResults

\* train() is entered: line 95 and the range of line 97
StartTrain ==
    /\ pc = "ready"
    /\ pc' = "loop"
    /\ not_improved_count' = 0
    /\ epoch' = start_epoch
    /\ best0' = mnt_best
    /\ UNCHANGED <<config, mnt_mode, mnt_best, start_epoch, state_dict, masterVector,
                   disk, finalized, logger, calls, history, results, phase, written,
                   reference, resumed, device_vars>>

\* lines 97-147: the body of the loop for the current epoch
TrainEpoch ==
    /\ pc = "loop"
    /\ epoch <= config.epochs
    /\ \E result \in HookReturns(epoch) :
         LET log == Log(epoch, result)
             ev == Evaluate(mnt_mode, mnt_best, not_improved_count, log)
             save == ~ev.stop /\ epoch % config.save_period = 0
             files == IF save THEN save_checkpoint(disk, Checkpoint(epoch), ev.best)
                      ELSE disk
         IN /\ calls' = Append(calls, <<EpochHook(epoch), epoch>>)
            /\ results' = IF epoch \in DOMAIN results THEN results
                          ELSE Append(results, result)
            /\ state_dict' = epoch
            /\ masterVector' = epoch
            /\ mnt_mode' = ev.mnt_mode
            /\ mnt_best' = ev.mnt_best
            /\ not_improved_count' = ev.not_improved_count
            /\ logger' = logger
                         \o (IF ev.warned THEN <<"warning: metric not found">> ELSE <<>>)
                         \o (IF ev.stop THEN <<"info: training stops">> ELSE <<>>)
            /\ disk' = files
            /\ written' = IF phase = "fresh" /\ files # disk
                          THEN written \cup {Checkpoint(epoch)} ELSE written
            /\ history' = Append(history,
                   [epoch |-> epoch, log |-> log, monitored |-> mnt_mode # "off",
                    mode |-> ev.mnt_mode, improved |-> ev.best, warned |-> ev.warned,
                    mnt_best |-> ev.mnt_best,
                    not_improved_count |-> ev.not_improved_count,
                    stopped |-> ev.stop, save_called |-> save,
                    saved_best |-> save /\ ev.best])
            /\ IF ev.stop THEN pc' = "break" /\ epoch' = epoch
                          ELSE pc' = "loop" /\ epoch' = epoch + 1
    /\ UNCHANGED <<config, start_epoch, finalized, best0, phase, reference, resumed,
                   device_vars>>

FinalizeOnlyOnCompletion ==
    /\ \/ pc = "break"
       \/ pc = "loop" /\ epoch > config.epochs
    /\ pc' = "done"
    /\ finalized' = IF config.comet_api /\ pc = "loop" THEN finalized + 1 ELSE finalized
    /\ UNCHANGED <<config, mnt_mode, mnt_best, start_epoch, state_dict, masterVector,
                   epoch, not_improved_count, disk, logger, calls, history, best0,
                   results, phase, written, reference, resumed, device_vars>>

\* lines 148-149: the loop is left, by exhaustion of the range or by break
Finalize ==
    /\ \/ pc = "break"
       \/ pc = "loop" /\ epoch > config.epochs
    /\ pc' = "done"
    /\ finalized' = IF config.comet_api THEN finalized + 1 ELSE finalized
    /\ UNCHANGED <<config, mnt_mode, mnt_best, start_epoch, state_dict, masterVector,
                   epoch, not_improved_count, disk, logger, calls, history, best0,
                   results, phase, written, reference, resumed, device_vars>>

\* A new trainer is constructed with the same config and config.resume set to a
\* model_best.pth the fresh run wrote: __init__ (lines 59-80), then
\* _resume_checkpoint.  The disk is as it was when that file was written.
Resume ==
    /\ pc = "done"
    /\ phase = "fresh"
    /\ \E checkpoint \in written :
         LET r == resume_checkpoint(checkpoint)
         IN /\ resumed' = <<checkpoint>>
            /\ mnt_mode' = InitMode(config)
            /\ start_epoch' = r.start_epoch
            /\ mnt_best' = r.mnt_best
            /\ masterVector' = r.masterVector
            /\ state_dict' = r.state_dict
            /\ disk' = {[name |-> best_path, state |-> checkpoint]}
    /\ phase' = "resumed"
    /\ pc' = "ready"
    /\ reference' = history
    /\ history' = <<>>
    /\ calls' = <<>>
    /\ finalized' = 0
    /\ logger' = <<>>
    /\ epoch' = 0
    /\ not_improved_count' = 0
    /\ best0' = mnt_best'
    /\ UNCHANGED <<config, results, written, device_vars>>

\* the state after BaseTrainer.__init__ without config.resume, on a CPU-only host
Init ==
    /\ config \in Configs
    /\ mnt_mode = InitMode(config)
    /\ mnt_best = InitBest(config)
    /\ start_epoch = 1
    /\ state_dict = 0
    /\ masterVector = 0
    /\ pc = "ready"
    /\ epoch = 0
    /\ not_improved_count = 0
    /\ disk = {}
    /\ finalized = 0
    /\ logger = <<>>
    /\ calls = <<>>
    /\ history = <<>>
    /\ best0 = mnt_best
    /\ results = <<>>
    /\ phase = "fresh"
    /\ written = {}
    /\ reference = <<>>
    /\ resumed = <<>>
    /\ n_gpu_use = 0
    /\ n_gpu = 0
    /\ device = prepare_device(0, 0).device
    /\ device_ids = prepare_device(0, 0).list_ids
    /\ dev_warnings = 0
    /\ dev_pc = "returned"

Next == StartTrain \/ TrainEpoch \/ Finalize \/ Resume

Spec == Init /\ [][Next]_vars

\* train() is sequential code: while it has a step to take, it takes it
Fairness == WF_vars(StartTrain) /\ WF_vars(TrainEpoch) /\ WF_vars(Finalize)

FairSpec == Spec /\ Fairness

\* ---- _prepare_device alone, over every requested and available count ----
DeviceInit ==
    /\ config \in {c \in Configs : c.epochs = 1 /\ c.save_period = 1 /\ c.warmup = 0
                                   /\ c.monitor = "off" /\ ~c.comet_api}
    /\ mnt_mode = InitMode(config)
    /\ mnt_best = InitBest(config)
    /\ start_epoch = 1
    /\ state_dict = 0
    /\ masterVector = 0
    /\ pc = "init"
    /\ epoch = 0
    /\ not_improved_count = 0
    /\ disk = {}
    /\ finalized = 0
    /\ logger = <<>>
    /\ calls = <<>>
    /\ history = <<>>
    /\ best0 = mnt_best
    /\ results = <<>>
    /\ phase = "fresh"
    /\ written = {}
    /\ reference = <<>>
    /\ resumed = <<>>
    /\ n_gpu_use \in -2..(MaxGpu + 1)
    /\ n_gpu \in 0..MaxGpu
    /\ device = "unset"
    /\ device_ids = <<>>
    /\ dev_warnings = 0
    /\ dev_pc = "call"

\* line 34: self.device, device_ids = self._prepare_device(config['n_gpu'])
PrepareDevice ==
    /\ dev_pc = "call"
    /\ LET r == prepare_device(n_gpu_use, n_gpu)
       IN /\ device' = r.device
          /\ device_ids' = r.list_ids
          /\ dev_warnings' = r.warnings
    /\ dev_pc' = "returned"
    /\ UNCHANGED <<n_gpu_use, n_gpu, trainer_vars>>

DeviceNext == PrepareDevice

DeviceSpec == DeviceInit /\ [][DeviceNext]_vars

\* ---- what the epochs of a run logged, recomputed from the logs alone ----
Max(a, b) == IF a >= b THEN a ELSE b

Metric(h, i) == h[i].log[mnt_metric]

\* the extremum of the starting value and the first i monitored metrics
RECURSIVE RunningBest(_, _, _, _)
RunningBest(h, mode, b0, i) ==
    IF i = 0 THEN b0
    ELSE IF mode = "min" THEN Min(RunningBest(h, mode, b0, i - 1), Metric(h, i))
    ELSE Max(RunningBest(h, mode, b0, i - 1), Metric(h, i))

\* epoch i's metric is at least as good as the best before it
Improves(h, mode, b0, i) ==
    IF mode = "min" THEN Metric(h, i) <= RunningBest(h, mode, b0, i - 1)
    ELSE Metric(h, i) >= RunningBest(h, mode, b0, i - 1)

\* the number of consecutive epochs, ending with epoch i, that did not improve
RECURSIVE Streak(_, _, _, _)
Streak(h, mode, b0, i) ==
    IF i = 0 \/ Improves(h, mode, b0, i) THEN 0
    ELSE 1 + Streak(h, mode, b0, i - 1)

\* every epoch so far found the monitored metric in its log
AllFound(h, i) == \A j \in 1..i : MetricFound(h[j].log)

Last(h) == h[Len(h)]

ImprovedEpochs == {i \in DOMAIN history : history[i].improved}

LastImprovedEpoch == history[CHOOSE i \in ImprovedEpochs :
                                \A j \in ImprovedEpochs : j <= i].epoch

\* ---- C1 -----------------------------------------------------------------
\* C1 (as stated): with monitoring on and early_stop = N >= 1, the loop is
\* left by the early-stop break at an epoch exactly when that epoch is the
\* N-th consecutive epoch without improvement.
C1_StopsAfterNEpochs ==
    (config.monitor # "off" /\ config.early_stop # inf /\ config.early_stop >= 1) =>
        \A i \in DOMAIN history :
            AllFound(history, i) =>
                (history[i].stopped <=>
                    Streak(history, config.monitor, best0, i) = config.early_stop)

\* ---- C2 -----------------------------------------------------------------
\* C2 (as stated): at the end of every epoch with monitoring configured, if
\* some epoch of the run improved the metric, model_best.pth exists and holds
\* the most recent improving epoch and the trainer's current mnt_best.
C2_BestCheckpointIsLatestImprovement ==
    (config.monitor # "off" /\ ImprovedEpochs # {}) =>
        \E f \in disk : /\ f.name = best_path
                        /\ f.state.epoch = LastImprovedEpoch
                        /\ f.state.monitor_best = mnt_best

\* ---- C3 -----------------------------------------------------------------
\* C3 (as stated): an epoch whose log lacks the monitored metric logs the
\* warning, turns mnt_mode 'off' and keeps mnt_best; from that epoch on no
\* early stop happens, mnt_best stays, no model_best.pth is written, and the
\* run goes through the last configured epoch.
C3_MissingMetricDisablesMonitoring ==
    \A i \in DOMAIN history :
        history[i].warned =>
            /\ history[i].mode = "off"
            /\ history[i].mnt_best = (IF i = 1 THEN best0 ELSE history[i - 1].mnt_best)
            /\ \A j \in i..Len(history) :
                   /\ ~history[j].stopped
                   /\ ~history[j].saved_best
                   /\ history[j].mnt_best = history[i].mnt_best
            /\ (pc = "done" => Last(history).epoch = config.epochs)

\* ---- C4 -----------------------------------------------------------------
ResumedEpoch == resumed[1].epoch

EpochsLeft == Max(0, config.epochs - ResumedEpoch)

\* C4 (as stated): after resuming from the checkpoint of epoch k, train()
\* executes exactly the epochs k+1, ..., epochs, and none when k >= epochs
\* (stated for the runs in which every epoch logs the monitored metric).
C4_ResumedRunsAllEpochs ==
    (phase = "resumed" /\ pc = "done" /\ AllFound(history, Len(history))) =>
        /\ Len(calls) = EpochsLeft
        /\ \A i \in DOMAIN calls : calls[i][2] = ResumedEpoch + i

\* C4 (amended): a trainer resumed from a checkpoint _save_checkpoint wrote
\* at epoch k has start_epoch = k + 1, mnt_best = the checkpoint's
\* monitor_best and masterVector = the checkpoint's masterVector; train()
\* then executes the epochs k+1, k+2, ... in order, up to epochs unless the
\* early-stop break leaves the loop sooner, and none when k >= epochs.
C4_ResumeRoundTrip ==
    phase = "resumed" =>
        /\ resumed[1] \in written
        /\ start_epoch = ResumedEpoch + 1
        /\ best0 = resumed[1].monitor_best
        /\ pc = "ready" => /\ mnt_best = resumed[1].monitor_best
                           /\ masterVector = resumed[1].masterVector
        /\ \A i \in DOMAIN calls : calls[i][2] = ResumedEpoch + i
        /\ Len(calls) <= EpochsLeft
        /\ pc = "done" => \/ Len(calls) = EpochsLeft
                          \/ Len(history) > 0 /\ Last(history).stopped

C4_Witness ==
    /\ phase = "resumed"
    /\ pc = "done"
    /\ Len(calls) >= 2
    /\ Len(calls) = EpochsLeft
    /\ resumed[1].monitor_best # InitBest(config)
    /\ resumed[1].masterVector # 0

\* ---- C5 -----------------------------------------------------------------
\* C5: every executed epoch e calls exactly one hook, _warmup_epoch if
\* e <= warmup and _train_epoch otherwise; so no warmup call follows a
\* regular training call, in a fresh run and in a resumed one.
C5_WarmupThenTrain ==
    /\ Len(calls) = Len(history)
    /\ \A i \in DOMAIN calls :
           /\ calls[i][2] = history[i].epoch
           /\ calls[i][1] = (IF calls[i][2] <= config.warmup
                             THEN "_warmup_epoch" ELSE "_train_epoch")
    /\ \A i, j \in DOMAIN calls :
           i < j => ~(calls[i][1] = "_train_epoch" /\ calls[j][1] = "_warmup_epoch")

C5_Witness ==
    /\ phase = "resumed"
    /\ \E i, j \in DOMAIN calls :
           /\ calls[i][1] = "_warmup_epoch"
           /\ calls[i][2] = config.warmup
           /\ calls[j][1] = "_train_epoch"

\* ---- C6 -----------------------------------------------------------------
\* C6: _prepare_device returns the ids 0..m-1 with m = min(n_gpu_use, n_gpu)
\* (none when n_gpu_use <= 0), the device 'cuda:0' if m > 0 and 'cpu'
\* otherwise, never an id >= n_gpu, and logs one warning exactly when
\* n_gpu_use > n_gpu and none otherwise.
C6_PrepareDevice ==
    dev_pc = "returned" =>
        LET m == Min(n_gpu_use, n_gpu)
        IN /\ Len(device_ids) = Max(0, m)
           /\ \A i \in DOMAIN device_ids : device_ids[i] = i - 1 /\ device_ids[i] < n_gpu
           /\ device = (IF m > 0 THEN "cuda:0" ELSE "cpu")
           /\ dev_warnings = (IF n_gpu_use > n_gpu THEN 1 ELSE 0)

C6_Witness ==
    /\ dev_pc = "returned"
    /\ n_gpu_use > n_gpu
    /\ n_gpu >= 2
    /\ Len(device_ids) = n_gpu
    /\ dev_warnings = 1

\* ---- C7 -----------------------------------------------------------------
\* C7 (as stated): every call of _save_checkpoint, with either value of
\* save_best, leaves a checkpoint of that epoch on disk; so a run that
\* completed at least save_period epochs has a checkpoint on disk.
C7_EverySaveCallPersists ==
    /\ (Len(history) > 0 /\ Last(history).save_called) =>
           \E f \in disk : /\ f.state.epoch = Last(history).epoch
                           /\ f.state.arch = arch
                           /\ f.state.monitor_best = mnt_best
                           /\ f.state.masterVector = masterVector
    /\ (phase = "fresh" /\ \E i \in DOMAIN history : history[i].save_called) =>
           disk # {}

\* ---- C8 -----------------------------------------------------------------
\* the number of epochs executed since the last improving one
SinceImproved(h, mode, b0) ==
    LET imp == {i \in DOMAIN h : Improves(h, mode, b0, i)}
    IN IF imp = {} THEN Len(h)
       ELSE Len(h) - (CHOOSE i \in imp : \A j \in imp : j <= i)

\* C8: while mnt_mode is 'min' (resp. 'max'), mnt_best never increases
\* (resp. decreases) from one epoch to the next and is the minimum (resp.
\* maximum) of its starting value and every metric logged so far;
\* not_improved_count is the number of epochs executed since the last epoch
\* whose metric was <= (resp. >=) the then-current mnt_best; a metric equal
\* to mnt_best is an improvement and resets the counter.
C8_BestMetricInvariant ==
    mnt_mode # "off" =>
        /\ mnt_best = RunningBest(history, mnt_mode, best0, Len(history))
        /\ \A i \in DOMAIN history :
               LET before == IF i = 1 THEN best0 ELSE history[i - 1].mnt_best
               IN /\ mnt_mode = "min" => history[i].mnt_best <= before
                  /\ mnt_mode = "max" => history[i].mnt_best >= before
                  /\ Metric(history, i) = before =>
                         history[i].improved /\ history[i].not_improved_count = 0
        /\ not_improved_count = SinceImproved(history, mnt_mode, best0)

C8_Witness ==
    /\ mnt_mode = "min"
    /\ Len(history) >= 3
    /\ not_improved_count = 1
    /\ \E i \in DOMAIN history :
           i > 1 /\ Metric(history, i) = history[i - 1].mnt_best

\* ---- C9 -----------------------------------------------------------------
C9_Safety ==
    /\ \A i \in DOMAIN calls : calls[i][2] = start_epoch + i - 1
    /\ Len(calls) <= Max(0, config.epochs - start_epoch + 1)
    /\ finalized = (IF pc = "done" /\ config.comet_api THEN 1 ELSE 0)

\* C9: train() always terminates; the epochs it executes increase by 1 from
\* start_epoch, at most epochs - start_epoch + 1 of them (none when
\* start_epoch > epochs), and a configured writer is finalized exactly once,
\* after the last executed epoch, on completion and on early stop alike.
C9_TerminatesAndFinalizesOnce ==
    /\ []C9_Safety
    /\ (pc = "ready") ~> (pc = "done")

C9_Witness ==
    /\ pc = "done"
    /\ config.comet_api
    /\ finalized = 1
    /\ Len(history) >= 2
    /\ Last(history).stopped

\* ---- C10 ----------------------------------------------------------------
SameOutcome(a, b) ==
    /\ a.epoch = b.epoch
    /\ a.improved = b.improved
    /\ a.mnt_best = b.mnt_best
    /\ a.saved_best = b.saved_best
    /\ a.stopped = b.stopped

\* C10: with the same config and the same per-epoch metrics, the run resumed
\* from the model_best.pth of epoch k decides every epoch after k as the
\* uninterrupted run did: same improved flag, same mnt_best, same
\* model_best.pth writes, and it stops at the same epoch.
C10_ResumeEquivalence ==
    phase = "resumed" =>
        /\ \A i \in DOMAIN history :
               /\ ResumedEpoch + i \in DOMAIN reference
               /\ SameOutcome(history[i], reference[ResumedEpoch + i])
        /\ pc = "done" => ResumedEpoch + Len(history) = Len(reference)

C10_Witness ==
    /\ phase = "resumed"
    /\ pc = "done"
    /\ Len(history) >= 2
    /\ Last(history).stopped
    /\ reference[ResumedEpoch].not_improved_count = 0
    /\ \E i \in DOMAIN history : history[i].saved_best

====
